---- MODULE Spec2Model ----
(***************************************************************************)
(* Model of src/app.py: the countdown-event service.                       *)
(*                                                                         *)
(* Text is modelled as a sequence of one-character strings, so that        *)
(* strip, slicing, replace, parsing and formatting are computed the way    *)
(* the Python code computes them.  The store is the `events` table; each   *)
(* create request is a process whose steps are the database round trips   *)
(* of create(): the SELECT of every attempt of ensure_unique_slug and the  *)
(* INSERT of commit.                                                       *)
(***************************************************************************)
EXTENDS Integers, Sequences, FiniteSets, TLC

\* ------------------------------------------------------------------ bounds
\* Concurrent create requests in flight.
NumProcs == 2
\* Create requests admitted in a run that starts from the empty table.
MaxCreates == 2
\* Symbols of ALPHABET the random source is seen to draw.
NumRand == 1
\* Ticks of the server clock.
MaxClock == 1

\* ------------------------------------------------------- program constants
\* create(): ensure_unique_slug(s, 6)
DefaultSlugLen == 6
\* ensure_unique_slug: for _ in range(10)
MaxTries == 10
\* Event.slug = Column(String(40))
SlugColumnLen == 40
\* Event.title = Column(String(200)); create(): title[:200]
TitleLimit == 200
\* index(): .limit(8)
RecentLimit == 8

\* ------------------------------------------------------------------- text
Min(a, b) == IF a < b THEN a ELSE b

Whitespace == {" ", "\t", "\n"}

RECURSIVE LStrip(_)
LStrip(s) ==
    IF s # <<>> /\ Head(s) \in Whitespace THEN LStrip(Tail(s)) ELSE s

RECURSIVE RStrip(_)
RStrip(s) ==
    IF s # <<>> /\ s[Len(s)] \in Whitespace
    THEN RStrip(SubSeq(s, 1, Len(s) - 1))
    ELSE s

\* str.strip()
Strip(s) == RStrip(LStrip(s))

\* s[:k] left out
SliceNone(s, k) == s

\* s[:k]
Slice(s, k) == SubSeq(s, 1, Min(k, Len(s)))

\* str.endswith
EndsWith(s, suffix) ==
    /\ Len(s) >= Len(suffix)
    /\ SubSeq(s, Len(s) - Len(suffix) + 1, Len(s)) = suffix

\* str.replace(old, new): every occurrence, left to right
RECURSIVE Replace(_, _, _)
Replace(s, old, new) ==
    IF Len(s) < Len(old) THEN s
    ELSE IF SubSeq(s, 1, Len(old)) = old
         THEN new \o Replace(SubSeq(s, Len(old) + 1, Len(s)), old, new)
         ELSE <<Head(s)>> \o Replace(Tail(s), old, new)

UtcOffsetText == <<"+", "0", "0", ":", "0", "0">>
ZText == <<"Z">>

\* ----------------------------------------------------------------- slugs
\* string.ascii_lowercase + string.digits
ALPHABET ==
    << "a", "b", "c", "d", "e", "f", "g", "h", "i", "j", "k", "l", "m",
       "n", "o", "p", "q", "r", "s", "t", "u", "v", "w", "x", "y", "z",
       "0", "1", "2", "3", "4", "5", "6", "7", "8", "9" >>

\* The outcomes of secrets.choice(ALPHABET) the model explores.
RandChoices == {ALPHABET[i] : i \in 1..Min(NumRand, Len(ALPHABET))}

\* gen_slug(k): the strings it can return, one choice per position
gen_slug(k) == [1..k -> RandChoices]

\* ------------------------------------------------------------- date-times
Digits == <<"0", "1", "2", "3", "4", "5", "6", "7", "8", "9">>

IsDigit(c) == \E i \in 1..10 : Digits[i] = c

DigitVal(c) == (CHOOSE i \in 1..10 : Digits[i] = c) - 1

AllDigits(s) == \A i \in 1..Len(s) : IsDigit(s[i])

RECURSIVE Num(_)
Num(s) ==
    IF s = <<>> THEN 0
    ELSE 10 * Num(SubSeq(s, 1, Len(s) - 1)) + DigitVal(s[Len(s)])

\* The width-w, zero-padded decimal text of v (the %0wd of isoformat).
RECURSIVE Pad(_, _)
Pad(v, w) ==
    IF w = 0 THEN <<>> ELSE Pad(v \div 10, w - 1) \o <<Digits[(v % 10) + 1]>>

IsLeap(y) == (y % 4 = 0) /\ ((y % 100 # 0) \/ (y % 400 = 0))

DaysInMonth(y, m) ==
    IF m = 2 THEN (IF IsLeap(y) THEN 29 ELSE 28)
    ELSE IF m \in {4, 6, 9, 11} THEN 30 ELSE 31

\* Days from 1970-01-01 to the civil date y-m-d (proleptic Gregorian).
DaysFromCivil(y, m, d) ==
    LET yy  == IF m <= 2 THEN y - 1 ELSE y
        era == yy \div 400
        yoe == yy - era * 400
        mp  == IF m > 2 THEN m - 3 ELSE m + 9
        doy == (153 * mp + 2) \div 5 + d - 1
        doe == yoe * 365 + yoe \div 4 - yoe \div 100 + doy
    IN  era * 146097 + doe - 719468

\* The civil date of day number z.
CivilFromDays(z) ==
    LET zz  == z + 719468
        era == zz \div 146097
        doe == zz - era * 146097
        yoe == (doe - doe \div 1460 + doe \div 36524 - doe \div 146096) \div 365
        doy == doe - (365 * yoe + yoe \div 4 - yoe \div 100)
        mp  == (5 * doy + 2) \div 153
        d   == doy - (153 * mp + 2) \div 5 + 1
        m   == IF mp < 10 THEN mp + 3 ELSE mp - 9
        y   == yoe + era * 400
    IN  [year |-> IF m <= 2 THEN y + 1 ELSE y, month |-> m, day |-> d]

\* fromisoformat raised ValueError
Invalid == [error |-> "ValueError"]

\* tzinfo of a naive value (None); an aware value has <<offset in minutes>>
Naive == <<>>

\* "YYYY-MM-DD"
ParseDate(s) ==
    IF /\ Len(s) = 10
       /\ s[5] = "-" /\ s[8] = "-"
       /\ AllDigits(SubSeq(s, 1, 4))
       /\ AllDigits(SubSeq(s, 6, 7))
       /\ AllDigits(SubSeq(s, 9, 10))
    THEN LET y == Num(SubSeq(s, 1, 4))
             m == Num(SubSeq(s, 6, 7))
             d == Num(SubSeq(s, 9, 10))
         IN  IF y >= 1 /\ m \in 1..12 /\ d >= 1 /\ d <= DaysInMonth(y, m)
             THEN [year |-> y, month |-> m, day |-> d]
             ELSE Invalid
    ELSE Invalid

\* "HH:MM" or "HH:MM:SS"
ParseClock(s) ==
    IF /\ Len(s) \in {5, 8}
       /\ s[3] = ":"
       /\ AllDigits(SubSeq(s, 1, 2))
       /\ AllDigits(SubSeq(s, 4, 5))
       /\ (Len(s) = 8 => s[6] = ":" /\ AllDigits(SubSeq(s, 7, 8)))
    THEN LET h  == Num(SubSeq(s, 1, 2))
             mi == Num(SubSeq(s, 4, 5))
             se == IF Len(s) = 8 THEN Num(SubSeq(s, 7, 8)) ELSE 0
         IN  IF h < 24 /\ mi < 60 /\ se < 60
             THEN [hour |-> h, minute |-> mi, second |-> se]
             ELSE Invalid
    ELSE Invalid

\* "+HH:MM" or "-HH:MM", as minutes east of UTC
ParseOffset(s) ==
    IF /\ Len(s) = 6
       /\ s[1] \in {"+", "-"}
       /\ s[4] = ":"
       /\ AllDigits(SubSeq(s, 2, 3))
       /\ AllDigits(SubSeq(s, 5, 6))
    THEN LET h  == Num(SubSeq(s, 2, 3))
             mi == Num(SubSeq(s, 5, 6))
         IN  IF h < 24 /\ mi < 60
             THEN [minutes |-> (IF s[1] = "-" THEN -1 ELSE 1) * (h * 60 + mi)]
             ELSE Invalid
    ELSE Invalid

\* Position of the first sign character of s, or 0.
SignPos(s) ==
    IF \E i \in 1..Len(s) : s[i] \in {"+", "-"}
    THEN CHOOSE i \in 1..Len(s) :
            /\ s[i] \in {"+", "-"}
            /\ \A j \in 1..(i - 1) : s[j] \notin {"+", "-"}
    ELSE 0

\* datetime.fromisoformat on the texts of the form
\*   YYYY-MM-DD [ <any one character> HH:MM[:SS] [(+|-)HH:MM] ]
\* (no fractional seconds, no basic format); anything else raises ValueError.
fromisoformat(text) ==
    IF Len(text) < 10 \/ Len(text) = 11 THEN Invalid
    ELSE
    LET date == ParseDate(SubSeq(text, 1, 10))
        rest == SubSeq(text, 12, Len(text))
        sp   == SignPos(rest)
        clk  == IF Len(text) = 10 THEN [hour |-> 0, minute |-> 0, second |-> 0]
                ELSE ParseClock(IF sp = 0 THEN rest ELSE SubSeq(rest, 1, sp - 1))
        off  == IF Len(text) = 10 \/ sp = 0 THEN [minutes |-> 0]
                ELSE ParseOffset(SubSeq(rest, sp, Len(rest)))
        tz   == IF Len(text) = 10 \/ sp = 0 THEN Naive ELSE <<off.minutes>>
    IN  IF date = Invalid \/ clk = Invalid \/ off = Invalid THEN Invalid
        ELSE [year |-> date.year, month |-> date.month, day |-> date.day,
              hour |-> clk.hour, minute |-> clk.minute, second |-> clk.second,
              tzinfo |-> tz]

\* astimezone with the offset applied the wrong way round
astimezone_added(dt) ==
    LET mins == DaysFromCivil(dt.year, dt.month, dt.day) * 1440
                  + dt.hour * 60 + dt.minute + dt.tzinfo[1]
        days == mins \div 1440
        rem  == mins % 1440
        c    == CivilFromDays(days)
    IN  [year |-> c.year, month |-> c.month, day |-> c.day,
         hour |-> rem \div 60, minute |-> rem % 60, second |-> dt.second,
         tzinfo |-> <<0>>]

\* dt.astimezone(timezone.utc) of an aware value
astimezone_utc(dt) ==
    LET mins == DaysFromCivil(dt.year, dt.month, dt.day) * 1440
                  + dt.hour * 60 + dt.minute - dt.tzinfo[1]
        days == mins \div 1440
        rem  == mins % 1440
        c    == CivilFromDays(days)
    IN  [year |-> c.year, month |-> c.month, day |-> c.day,
         hour |-> rem \div 60, minute |-> rem % 60, second |-> dt.second,
         tzinfo |-> <<0>>]

\* parse_iso_utc(iso): the UTC value, or Invalid when fromisoformat raises
parse_iso_utc(iso) ==
    LET text == IF EndsWith(iso, ZText) THEN Replace(iso, ZText, UtcOffsetText)
                ELSE iso
        dt   == fromisoformat(text)
    IN  IF dt = Invalid THEN Invalid
        ELSE astimezone_utc(IF dt.tzinfo = Naive THEN [dt EXCEPT !.tzinfo = <<0>>]
                            ELSE dt)

\* dt.isoformat() of a UTC value without microseconds
isoformat(dt) ==
    Pad(dt.year, 4) \o <<"-">> \o Pad(dt.month, 2) \o <<"-">> \o Pad(dt.day, 2)
      \o <<"T">> \o Pad(dt.hour, 2) \o <<":">> \o Pad(dt.minute, 2)
      \o <<":">> \o Pad(dt.second, 2) \o UtcOffsetText

\* dt.astimezone(timezone.utc).isoformat().replace("+00:00", "Z")
iso_z(dt) == Replace(isoformat(astimezone_utc(dt)), UtcOffsetText, ZText)

\* ------------------------------------------------------------ form inputs
DateA == <<"2", "0", "2", "5", "-", "0", "9", "-", "2", "2">>
ClockA == <<"1", "5", ":", "3", "0", ":", "0", "0">>
Party == <<"P", "a", "r", "t", "y">>
NewYear == <<"N", "e", "w", " ", "Y", "e", "a", "r">>
\* A title of TitleLimit + 3 characters.
LongTitle == [i \in 1..(TitleLimit + 3) |-> Digits[(i % 10) + 1]]
Blank == <<" ", " ">>

IsoZ == DateA \o <<"T">> \o ClockA \o ZText
IsoPlus == DateA \o <<"T">> \o ClockA \o UtcOffsetText
IsoNaive == DateA \o <<"T">> \o ClockA
\* Any single character separates date and time for fromisoformat.
IsoSepZ == DateA \o <<"Z">> \o ClockA
IsoSepZZ == DateA \o <<"Z">> \o ClockA \o ZText
\* 2025-09-23T01:00:00+09:30
IsoEast ==
    <<"2", "0", "2", "5", "-", "0", "9", "-", "2", "3", "T",
      "0", "1", ":", "0", "0", ":", "0", "0", "+", "0", "9", ":", "3", "0">>
\* 2025-12-31T23:30:00-02:00
IsoWest ==
    <<"2", "0", "2", "5", "-", "1", "2", "-", "3", "1", "T",
      "2", "3", ":", "3", "0", ":", "0", "0", "-", "0", "2", ":", "0", "0">>
NotADate == <<"n", "o", "t", "-", "a", "-", "d", "a", "t", "e">>

Form(t, u) == [title |-> t, until_iso |-> u]

\* The form posts the model explores (request.form of POST /create).
Forms ==
    { Form(<<" ">> \o Party \o <<" ">>, IsoZ),
      Form(Party, IsoPlus),
      Form(Party, <<" ">> \o IsoNaive),
      Form(Party, IsoSepZ),
      Form(LongTitle, IsoEast),
      Form(NewYear, IsoWest),
      Form(Blank, IsoZ),
      Form(Party, Blank),
      Form(<<>>, <<>>),
      Form(Party, NotADate),
      Form(Party, IsoSepZZ) }

\* The slugs GET /e/<slug> is asked for.
Unallocated == <<"z", "z", "z", "z", "z", "z">>
ViewSlugs ==
    gen_slug(DefaultSlugLen) \cup gen_slug(DefaultSlugLen + 1) \cup {Unallocated}

\* ------------------------------------------------------------------ state
Procs == 1..NumProcs

VARIABLES
    store,       \* the events table: the rows in insertion order
    now,         \* datetime.now(timezone.utc), in ticks
    quota,       \* create requests still to arrive
    pc,          \* pc[p]: where create request p stands
    form,        \* form[p]: request.form of p
    title,       \* title[p]: create()'s local `title`
    until_utc,   \* until_utc[p]: create()'s local `until_utc`
    n,           \* n[p]: ensure_unique_slug's `n` of the innermost call
    tries,       \* tries[p]: iterations of its loop that found a collision
    slug,        \* slug[p]: create()'s local `slug`
    status,      \* status[p]: the HTTP status p was answered with (0: none)
    resp,        \* the last response to a GET request
    redirected,  \* history: the (slug, form) pairs of the redirects sent
    cand,        \* history: cand[p] is the last candidate p drew (`s`)
    hits         \* history: hits[p][k] counts the candidates of length
                 \*   DefaultSlugLen + k - 1 that p found in the table

vars == <<store, now, quota, pc, form, title, until_utc, n, tries, slug,
          status, resp, redirected, cand, hits>>

procVars == <<pc, form, title, until_utc, n, tries, slug, status, cand, hits>>

\* A local that is not assigned.
Unset == [unset |-> TRUE]
NoForm == Form(<<>>, <<>>)

\* The rows of a table as a set.
Rows(st) == {st[i] : i \in 1..Len(st)}

\* Event(slug=..., title=..., until_utc=...) once flushed: the id is the
\* autoincrement key, created_at the column default datetime.now(utc).
Event(id, sl, ti, un, at) ==
    [id |-> id, slug |-> sl, title |-> ti, until_utc |-> un, created_at |-> at]

\* The select without its where clause
LookupAny(st, s) == Rows(st)

\* session.scalar(select(Event).where(Event.slug == s))
Lookup(st, s) == {e \in Rows(st) : e.slug = s}

\* ensure_unique_slug without the lookup
SlugExistsNever(st, s) == FALSE

\* A lookup that also sees the candidates other requests are about to insert
SlugExistsOrHeld(st, s) ==
    \/ Lookup(st, s) # {}
    \/ \E q \in Procs : pc[q] = "commit" /\ slug[q] = s

\* ensure_unique_slug: `exists`
SlugExists(st, s) == Lookup(st, s) # {}

\* The table without the unique constraint
UniqueOkAlways(st, s) == TRUE

\* Column(unique=True) / UniqueConstraint("slug"): may the row be inserted?
UniqueOk(st, s) == \A e \in Rows(st) : e.slug # s

\* An insert under a key already in use: the last row is overwritten
InsertOverLast(st, ev) ==
    IF st = <<>> THEN <<ev>> ELSE [st EXCEPT ![Len(st)] = ev]

\* s.add(ev); s.commit(): a new row
Insert(st, ev) == Append(st, ev)

\* Column(String(k)): does the value fit the declared length?
Fits(s, k) == Len(s) <= k

InitProcs ==
    /\ pc = [p \in Procs |-> "idle"]
    /\ form = [p \in Procs |-> NoForm]
    /\ title = [p \in Procs |-> <<>>]
    /\ until_utc = [p \in Procs |-> Unset]
    /\ n = [p \in Procs |-> 0]
    /\ tries = [p \in Procs |-> 0]
    /\ slug = [p \in Procs |-> <<>>]
    /\ status = [p \in Procs |-> 0]
    /\ resp = [op |-> "none"]
    /\ redirected = {}
    /\ cand = [p \in Procs |-> <<>>]
    /\ hits = [p \in Procs |-> <<>>]

\* Base.metadata.create_all(engine) on a new database: an empty table.
Init ==
    /\ store = <<>>
    /\ now = 0
    /\ quota = MaxCreates
    /\ InitProcs

\* ------------------------------------------------------------- POST /create
Aborted(code) == [status |-> code, title |-> <<>>, until_utc |-> Unset]

\* The validation without the blank-field check
ValidatedUnchecked(f) ==
    LET t == Strip(f.title)
        u == Strip(f.until_iso)
    IN  IF parse_iso_utc(u) = Invalid THEN Aborted(400)
        ELSE [status |-> 0, title |-> t, until_utc |-> parse_iso_utc(u)]

\* create(), lines 94-101: the locals after validation (status 0), or the
\* abort: 400 on a blank field, 400 on a date-time that does not parse.
Validated(f) ==
    LET t == Strip(f.title)
        u == Strip(f.until_iso)
    IN  IF t = <<>> \/ u = <<>> THEN Aborted(400)
        ELSE IF parse_iso_utc(u) = Invalid THEN Aborted(400)
        ELSE [status |-> 0, title |-> t, until_utc |-> parse_iso_utc(u)]

\* A create request arrives and runs up to the end of the validation.
CreateValidate(p) ==
    /\ pc[p] \in {"idle", "done"}
    /\ quota > 0
    /\ \E f \in Forms :
        LET v == Validated(f)
            ok == v.status = 0
        IN  /\ form' = [form EXCEPT ![p] = f]
            /\ title' = [title EXCEPT ![p] = v.title]
            /\ until_utc' = [until_utc EXCEPT ![p] = v.until_utc]
            /\ pc' = [pc EXCEPT ![p] = IF ok THEN "alloc" ELSE "done"]
            /\ status' = [status EXCEPT ![p] = v.status]
            /\ n' = [n EXCEPT ![p] = IF ok THEN DefaultSlugLen ELSE 0]
    /\ tries' = [tries EXCEPT ![p] = 0]
    /\ slug' = [slug EXCEPT ![p] = <<>>]
    /\ cand' = [cand EXCEPT ![p] = <<>>]
    /\ hits' = [hits EXCEPT ![p] = <<>>]
    /\ quota' = quota - 1
    /\ UNCHANGED <<store, now, resp, redirected>>

\* The loop that runs one iteration more
LoopContinuesOnceMore(t) == t + 1 <= MaxTries

\* for _ in range(10): after the collision that follows t others, is there
\* another iteration?
LoopContinues(t) == t + 1 < MaxTries

\* The fallback that keeps the length
SameLen(k) == k

\* ensure_unique_slug(session, n + 1)
LongerLen(k) == k + 1

\* h with one more collision counted at length k (a count stops at
\* MaxTries + 1: more than the loop allows)
Counted(h, k) ==
    LET i == k - DefaultSlugLen + 1
        g == IF i > Len(h) THEN h \o [j \in 1..(i - Len(h)) |-> 0] ELSE h
    IN  [g EXCEPT ![i] = Min(g[i] + 1, MaxTries + 1)]

\* One iteration of ensure_unique_slug's loop: draw a candidate, look it up,
\* return it when absent; after MaxTries collisions recurse with n + 1.
Attempt(p) ==
    /\ pc[p] = "alloc"
    /\ \E s \in gen_slug(n[p]) :
        /\ cand' = [cand EXCEPT ![p] = s]
        /\ IF ~SlugExists(store, s)
           THEN /\ slug' = [slug EXCEPT ![p] = s]
                /\ pc' = [pc EXCEPT ![p] = "commit"]
                /\ UNCHANGED <<n, tries, hits>>
           ELSE /\ IF LoopContinues(tries[p])
                   THEN /\ tries' = [tries EXCEPT ![p] = tries[p] + 1]
                        /\ UNCHANGED n
                   ELSE /\ tries' = [tries EXCEPT ![p] = 0]
                        /\ n' = [n EXCEPT ![p] = LongerLen(n[p])]
                /\ hits' = [hits EXCEPT ![p] = Counted(hits[p], Len(s))]
                /\ UNCHANGED <<slug, pc>>
    /\ UNCHANGED <<store, now, quota, form, title, until_utc, status, resp,
                   redirected>>

\* s.add(ev); s.commit(); redirect.  The INSERT fails on a slug that is
\* already in the table (IntegrityError, not caught: 500).  A slug longer
\* than the declared String(40) is rejected by a database that enforces the
\* length and stored by one that does not (SQLite, the default DB_URL).
Commit(p) ==
    /\ pc[p] = "commit"
    /\ \E enforced \in (IF Fits(slug[p], SlugColumnLen) THEN {TRUE} ELSE BOOLEAN) :
        LET ev == Event(Len(store) + 1, slug[p], Slice(title[p], TitleLimit),
                        until_utc[p], now)
            accepted == /\ UniqueOk(store, ev.slug)
                        /\ (enforced => Fits(ev.slug, SlugColumnLen))
        IN  /\ IF accepted
               THEN /\ store' = Insert(store, ev)
                    /\ status' = [status EXCEPT ![p] = 302]
                    /\ redirected' =
                         redirected \cup {[slug |-> slug[p], form |-> form[p]]}
               ELSE /\ status' = [status EXCEPT ![p] = 500]
                    /\ UNCHANGED <<store, redirected>>
    /\ pc' = [pc EXCEPT ![p] = "done"]
    /\ UNCHANGED <<now, quota, form, title, until_utc, n, tries, slug, resp,
                   cand, hits>>

\* --------------------------------------------------------------- GET routes
\* The query ordered by created_at ascending
RECURSIVE RecentAscending(_, _)
RecentAscending(S, k) ==
    IF k = 0 \/ S = {} THEN {<<>>}
    ELSE UNION { {<<e>> \o r : r \in RecentAscending(S \ {e}, k - 1)} :
                 e \in {x \in S : \A y \in S : y.created_at >= x.created_at} }

\* select(Event).order_by(Event.created_at.desc()).limit(k): the sequences
\* the query can return (rows with equal created_at come in any order).
RECURSIVE Recent(_, _)
Recent(S, k) ==
    IF k = 0 \/ S = {} THEN {<<>>}
    ELSE UNION { {<<e>> \o r : r \in Recent(S \ {e}, k - 1)} :
                 e \in {x \in S : \A y \in S : y.created_at <= x.created_at} }

\* index()
Index ==
    /\ \E events \in Recent(Rows(store), RecentLimit) :
        resp' = [op |-> "index", status |-> 200, events |-> events,
                 server_utc_now |-> now]
    /\ UNCHANGED <<store, now, quota, procVars, redirected>>

\* What event_page(sl) renders, or the 404 it aborts with.
EventPageResponse(st, sl, t) ==
    IF Lookup(st, sl) = {}
    THEN [op |-> "event_page", arg |-> sl, status |-> 404]
    ELSE LET ev == CHOOSE e \in Lookup(st, sl) : TRUE
         IN  [op |-> "event_page", arg |-> sl, status |-> 200,
              title |-> ev.title, slug |-> ev.slug,
              until_iso |-> iso_z(ev.until_utc), server_utc_now |-> t]

\* event_page(slug)
EventPage(sl) ==
    /\ resp' = EventPageResponse(store, sl, now)
    /\ UNCHANGED <<store, now, quota, procVars, redirected>>

\* api_time()
ApiTime ==
    /\ resp' = [op |-> "api_time", status |-> 200, utc_now |-> now]
    /\ UNCHANGED <<store, now, quota, procVars, redirected>>

\* health()
Health ==
    /\ resp' = [op |-> "health", status |-> 200, ok |-> TRUE]
    /\ UNCHANGED <<store, now, quota, procVars, redirected>>

\* The server clock advances.
Tick ==
    /\ now < MaxClock
    /\ now' = now + 1
    /\ UNCHANGED <<store, quota, procVars, resp, redirected>>

Next ==
    \/ \E p \in Procs : CreateValidate(p)
    \/ \E p \in Procs : Attempt(p)
    \/ \E p \in Procs : Commit(p)
    \/ Index
    \/ \E sl \in ViewSlugs : EventPage(sl)
    \/ ApiTime
    \/ Health
    \/ Tick

Spec == Init /\ [][Next]_vars

\* A request handler that has work to do does it: the thread serving a
\* create request runs its next loop iteration.
FairSpec == Spec /\ \A p \in Procs : WF_vars(Attempt(p))

\* ------------------------------------------------- a table that is not new
\* A table left by earlier runs in which every slug length from
\* DefaultSlugLen to SlugColumnLen is taken by the slug the random source
\* draws: row i is what create() stores after colliding MaxTries times at
\* each shorter length.
SeedRows == SlugColumnLen - DefaultSlugLen + 1

SeedStore ==
    [i \in 1..SeedRows |->
        Event(i, [j \in 1..(DefaultSlugLen + i - 1) |-> ALPHABET[1]], Party,
              parse_iso_utc(IsoZ), i - SeedRows - 1)]

\* The service starts on that table; one create request arrives.
InitSeeded ==
    /\ store = SeedStore
    /\ now = 0
    /\ quota = 1
    /\ InitProcs

SpecSeeded == InitSeeded /\ [][Next]_vars

\* =================================================================== claims
\* What a reader of the form expects the event page to show.
IsoTextA ==
    <<"2", "0", "2", "5", "-", "0", "9", "-", "2", "2", "T",
      "1", "5", ":", "3", "0", ":", "0", "0", "Z">>
IsoTextB ==
    <<"2", "0", "2", "6", "-", "0", "1", "-", "0", "1", "T",
      "0", "1", ":", "3", "0", ":", "0", "0", "Z">>

ExpectedUntil(u) ==
    CASE u = IsoZ -> IsoTextA
      [] u = IsoPlus -> IsoTextA
      [] u = <<" ">> \o IsoNaive -> IsoTextA
      [] u = IsoSepZ -> IsoTextA
      [] u = IsoEast -> IsoTextA
      [] u = IsoWest -> IsoTextB

ExpectedTitle(ti) ==
    CASE ti = <<" ">> \o Party \o <<" ">> -> Party
      [] ti = Party -> Party
      [] ti = NewYear -> NewYear
      [] ti = LongTitle -> [i \in 1..TitleLimit |-> LongTitle[i]]

IsBlank(s) == \A i \in 1..Len(s) : s[i] \in Whitespace

\* Step predicates: what the step just taken was.
Viewed == resp' # resp /\ resp'.op = "event_page"

Validating(p) ==
    /\ quota' < quota
    /\ pc[p] \in {"idle", "done"} /\ pc'[p] # "idle"
    /\ \A q \in Procs \ {p} :
         /\ pc'[q] = pc[q] /\ form'[q] = form[q] /\ status'[q] = status[q]

\* C1: in every reachable state no two persisted Events have the same slug,
\* also when two create requests passed the existence check for the same
\* candidate before either committed.
C1_SlugsUnique ==
    \A i, j \in 1..Len(store) : i # j => store[i].slug # store[j].slug

\* Two requests held the same candidate; one was stored, the other rejected.
C1_Witness ==
    \E p, q \in Procs :
        /\ p # q /\ slug[p] = slug[q]
        /\ pc[p] = "done" /\ status[p] = 302
        /\ pc[q] = "done" /\ status[q] = 500

\* C2: a create request whose insert is rejected for the uniqueness of the
\* slug retries the allocation; it is not answered with an error.
C2_ViolationNotSurfaced ==
    \A p \in Procs :
        ~(/\ pc[p] = "done" /\ status[p] = 500
          /\ \E e \in Rows(store) : e.slug = slug[p])

\* C3: the slug ensure_unique_slug returns is the slug of no Event that was
\* in the table when its existence check ran.
C3_ReturnedSlugAbsent ==
    [][\A p \in Procs :
         (pc[p] = "alloc" /\ pc'[p] = "commit")
            => \A e \in Rows(store) : e.slug # slug'[p]]_vars

\* A slug was returned after a collision with a stored slug.
C3_Witness ==
    \E p \in Procs :
        /\ pc[p] = "commit" /\ store # <<>>
        /\ n[p] > DefaultSlugLen
        /\ \A e \in Rows(store) : e.slug # slug[p]

\* C4: a create request with a blank title or until_iso, or an until_iso
\* that does not parse, is answered 400 and changes nothing: no Event is
\* persisted and no slug is allocated.
C4_InvalidCreateRejected ==
    [][\A p \in Procs :
         (/\ Validating(p)
          /\ \/ IsBlank(form'[p].title)
             \/ IsBlank(form'[p].until_iso)
             \/ parse_iso_utc(Strip(form'[p].until_iso)) = Invalid)
            => /\ status'[p] = 400 /\ pc'[p] = "done"
               /\ slug'[p] = <<>>
               /\ store' = store]_vars

\* A request with an unparseable date was answered 400 on a non-empty table.
C4_Witness ==
    \E p \in Procs :
        /\ pc[p] = "done" /\ status[p] = 400
        /\ form[p] = Form(Party, NotADate)
        /\ store # <<>>

C6_NotFoundIffAbsent ==
    [][Viewed =>
         /\ resp'.status = 404 <=> (\A e \in Rows(store) : e.slug # resp'.arg)
         /\ (\A r \in redirected : r.slug # resp'.arg) => resp'.status = 404
      ]_vars

\* An unallocated slug was answered 404 while the table held Events.
C6_Witness ==
    /\ resp.op = "event_page" /\ resp.status = 404
    /\ resp.arg = Unallocated
    /\ store # <<>>

\* C7: a persisted Event never changes and is never removed; the table
\* changes only by a successful create, which adds exactly one Event.
C7_EventsImmutable ==
    [][/\ Len(store') >= Len(store)
       /\ \A i \in 1..Len(store) : store'[i] = store[i]
       /\ store' # store =>
            /\ Len(store') = Len(store) + 1
            /\ \E p \in Procs :
                 /\ pc[p] = "commit" /\ pc'[p] = "done"
                 /\ status'[p] = 302]_vars

\* Two Events are stored and GET requests were served since the first.
C7_Witness ==
    /\ Len(store) = 2
    /\ resp.op = "index" /\ Len(resp.events) = 1

\* The date and time text of u: u without a trailing Z or +00:00.
ZeroOffsetBase(u) ==
    IF EndsWith(u, ZText) THEN SubSeq(u, 1, Len(u) - 1)
    ELSE IF EndsWith(u, UtcOffsetText) THEN SubSeq(u, 1, Len(u) - 6)
    ELSE u

\* What parse_iso_utc gave request p: the UTC value, or the error.
ParseOutcome(p) == IF status[p] = 400 THEN Invalid ELSE until_utc[p]

\* C8: the same date and time text parses to the same UTC instant whether
\* it ends in Z, ends in +00:00 or carries no offset.
C8_ZeroOffsetsAgree ==
    \A p, q \in Procs :
        (/\ pc[p] # "idle" /\ pc[q] # "idle"
         /\ ~IsBlank(form[p].title) /\ ~IsBlank(form[q].title)
         /\ ~IsBlank(form[p].until_iso)
         /\ ZeroOffsetBase(Strip(form[p].until_iso))
              = ZeroOffsetBase(Strip(form[q].until_iso)))
            => ParseOutcome(p) = ParseOutcome(q)

\* C9: every stored slug is made of ALPHABET characters and has at most
\* SlugColumnLen characters.
C9_SlugsWellFormed ==
    \A e \in Rows(store) :
        /\ Len(e.slug) <= SlugColumnLen
        /\ \A i \in 1..Len(e.slug) : \E k \in 1..Len(ALPHABET) : e.slug[i] = ALPHABET[k]

\* C10: every stored title is non-empty and has at most TitleLimit
\* characters; a trimmed title longer than that is stored as its first
\* TitleLimit characters.
C10_TitlesBounded ==
    /\ \A e \in Rows(store) : e.title # <<>> /\ Len(e.title) <= TitleLimit
    /\ \A r \in redirected : \A e \in Rows(store) :
         (e.slug = r.slug /\ Len(Strip(r.form.title)) > TitleLimit)
            => /\ Len(e.title) = TitleLimit
               /\ \A i \in 1..TitleLimit : e.title[i] = Strip(r.form.title)[i]

\* The Event of the form with the long title is stored.
C10_Witness ==
    \E r \in redirected : \E e \in Rows(store) :
        e.slug = r.slug /\ r.form.title = LongTitle /\ Len(e.title) = TitleLimit

\* The step just taken was an index() whose answer differs from the last.
Listed == resp' # resp /\ resp'.op = "index"

\* C11: the recent list has min(8, number of Events) Events, they are the
\* ones with the greatest created_at, and they are ordered by created_at
\* descending.
C11_RecentListing ==
    [][Listed =>
         LET ev == resp'.events
             shown == {ev[i] : i \in 1..Len(ev)}
         IN  /\ Len(ev) = (IF Len(store) < RecentLimit THEN Len(store)
                           ELSE RecentLimit)
             /\ shown \subseteq Rows(store)
             /\ \A i, j \in 1..Len(ev) :
                  i < j => /\ ev[i] # ev[j]
                           /\ ev[i].created_at >= ev[j].created_at
             /\ \A e \in Rows(store) \ shown : \A x \in shown :
                  e.created_at <= x.created_at]_vars

\* The list was cut to 8 of more Events, the newly created one first.
C11_Witness ==
    /\ resp.op = "index" /\ Len(resp.events) = RecentLimit
    /\ Len(store) = SeedRows + 1
    /\ resp.events[1] = store[SeedRows + 1]

\* The step just taken was an iteration of p's loop.
Drew(p) == pc[p] = "alloc" /\ (pc'[p] # pc[p] \/ hits'[p] # hits[p])

\* C12: ensure_unique_slug makes at most 10 attempts at a length and returns
\* the first candidate that is absent; it moves to length + 1 only after 10
\* collisions in a row, so a slug of length 6 + k is returned after exactly
\* 10 collisions at each of the lengths 6 .. 6 + k - 1.
C12_AttemptsPerLength ==
    [][\A p \in Procs :
         /\ pc'[p] \in {"alloc", "commit"} =>
              /\ Len(hits'[p]) <= n'[p] - DefaultSlugLen + 1
              /\ \A k \in 1..Len(hits'[p]) :
                   IF DefaultSlugLen + k - 1 < n'[p]
                   THEN hits'[p][k] = MaxTries
                   ELSE hits'[p][k] < MaxTries
         /\ Drew(p) =>
              /\ (\A e \in Rows(store) : e.slug # cand'[p])
                    => pc'[p] = "commit" /\ slug'[p] = cand'[p]
              /\ (pc'[p] = "alloc" /\ hits'[p] # hits[p])
                    => /\ \E e \in Rows(store) : e.slug = cand'[p]
                       /\ Len(cand'[p]) = n[p]
              /\ n'[p] # n[p]
                    => /\ n'[p] = n[p] + 1 /\ tries'[p] = 0
                       /\ hits'[p][n[p] - DefaultSlugLen + 1] = MaxTries
              /\ pc'[p] = "commit"
                    => /\ Len(slug'[p]) = n[p]
                       /\ Len(hits[p]) >= n[p] - DefaultSlugLen
                       /\ \A k \in 1..(n[p] - DefaultSlugLen) :
                            hits[p][k] = MaxTries]_vars

\* A slug of length 7 was returned after 10 collisions at length 6.
C12_Witness ==
    \E p \in Procs :
        /\ pc[p] = "commit"
        /\ Len(slug[p]) = DefaultSlugLen + 1
        /\ hits[p] = <<MaxTries>>

\* C13: the existence check reserves nothing: while one request holds a
\* candidate it found absent and has not inserted it, another request that
\* draws the same candidate passes the check too.
C13_CheckDoesNotReserve ==
    \A p, q \in Procs :
        (/\ p # q
         /\ pc[p] = "commit" /\ pc[q] = "alloc"
         /\ n[q] = Len(slug[p])
         /\ \A e \in Rows(store) : e.slug # slug[p])
            => ENABLED (Attempt(q) /\ pc'[q] = "commit" /\ slug'[q] = slug[p])

\* Both requests passed the check for the same candidate; neither inserted.
C13_Race ==
    \E p, q \in Procs :
        /\ p # q
        /\ pc[p] = "commit" /\ pc[q] = "commit"
        /\ slug[p] = slug[q]
        /\ \A e \in Rows(store) : e.slug # slug[p]

\* C14: every call of ensure_unique_slug returns a slug: a request that is
\* allocating gets to the insert.
C14_AllocationReturns ==
    \A p \in Procs : (pc[p] = "alloc") ~> (pc[p] = "commit")

\* A call returned after it had moved on from a length that was taken.
C14_Witness ==
    \E p \in Procs :
        /\ pc[p] = "commit"
        /\ n[p] > DefaultSlugLen
        /\ \E e \in Rows(store) : Len(e.slug) = DefaultSlugLen
        /\ Len(slug[p]) = n[p]

====
